---- MODULE Spec2Model ----
(***************************************************************************)
(* Model of the OWID medallion pipeline:                                   *)
(*   src/silver/transform_owid_to_silver.py  (Bronze -> Silver script)     *)
(*   src/gold/build_gold_tables.py           (Silver -> Gold script)       *)
(*                                                                         *)
(* A DataFrame is a record [columns, rows]: columns is the sequence of     *)
(* column names, rows the sequence of row records.  A nullable cell is a   *)
(* sequence of length 0 (NaN / None / <NA>) or 1 (the value).              *)
(* iso codes are represented by their rank in lexicographic order, so      *)
(* that sort_values("iso_code") is a comparison of naturals.               *)
(* co2 values are fixed-point decimals counted in units of 10^-4, the      *)
(* finest resolution the script rounds to; binary floating-point error is  *)
(* outside the model.                                                      *)
(***************************************************************************)
EXTENDS Integers, Sequences, FiniteSets, TLC

VARIABLES
    pc,                     \* position of the running script
    error,                  \* the exception that ended the run, or "none"
    df,                     \* the script's DataFrame df
    dim_country,            \* gold: dimension table (sequence of rows)
    fact_emissions,         \* gold: fact table [columns, rows]
    agg_global,             \* gold: global yearly rollup (sequence of rows)
    country_year_emissions, \* gold: per (year, country_sk) sums
    top_emitters,           \* gold: ranked top-N table
    local_files,            \* local files written by this run: name -> content
    blobs                   \* blobs uploaded by this run: name -> content

vars == <<pc, error, df, dim_country, fact_emissions, agg_global,
          country_year_emissions, top_emitters, local_files, blobs>>

----------------------------------------------------------------------------
(* Nullable cells and generic helpers *)

Null == <<>>

Some(v) == <<v>>

IsNull(c) == c = Null

Range(s) == {s[i] : i \in 1..Len(s)}

NoFile == <<>>

Put(store, name, content) == [n \in DOMAIN store \cup {name} |->
                                 IF n = name THEN content ELSE store[n]]

RECURSIVE SumSeq(_)
SumSeq(s) == IF s = <<>> THEN 0 ELSE Head(s) + SumSeq(Tail(s))

\* the non-null values of a column, in row order (pandas skipna)
NonNull(cells) ==
    LET kept == SelectSeq(cells, LAMBDA c : ~IsNull(c))
    IN  [i \in 1..Len(kept) |-> kept[i][1]]

RECURSIVE SortAsc(_)
SortAsc(S) ==
    IF S = {} THEN <<>>
    ELSE LET m == CHOOSE x \in S : \A y \in S : x <= y
         IN  <<m>> \o SortAsc(S \ {m})

----------------------------------------------------------------------------
(* Gold script: dimension table *)

DimColumns(d) ==
    IF "continent" \in Range(d.columns)
    THEN <<"iso_code", "country", "continent">>
    ELSE <<"iso_code", "country">>

\* df[dim_columns]: a row restricted to the dimension columns
DimProject(d, r) ==
    [iso_code |-> r.iso_code, country |-> r.country,
     continent |-> IF "continent" \in Range(DimColumns(d)) THEN r.continent ELSE Null]

DropNaIso(rows) == SelectSeq(rows, LAMBDA r : ~IsNull(r.iso_code))

RECURSIVE DropDuplicates(_)
DropDuplicates(rows) ==
    IF rows = <<>> THEN <<>>
    ELSE LET init == DropDuplicates(SubSeq(rows, 1, Len(rows) - 1))
             last == rows[Len(rows)]
         IN  IF last \in Range(init) THEN init ELSE Append(init, last)

\* sort_values("iso_code") with the default unstable quicksort: every
\* arrangement that is ascending in iso_code is a possible outcome.
RECURSIVE SortValuesIso(_)
SortValuesIso(S) ==
    IF S = {} THEN {<<>>}
    ELSE LET mins == {r \in S : \A q \in S : r.iso_code[1] <= q.iso_code[1]}
         IN  UNION {{<<r>> \o t : t \in SortValuesIso(S \ {r})} : r \in mins}

\* reset_index, country_sk = index + 1, rename iso_code -> country_id
WithSurrogateKey(sorted) ==
    [i \in 1..Len(sorted) |->
        [country_id |-> sorted[i].iso_code, country |-> sorted[i].country,
         continent |-> sorted[i].continent, country_sk |-> i]]

DimCandidates(d) ==
    LET projected == [i \in 1..Len(d.rows) |-> DimProject(d, d.rows[i])]
        deduped   == DropDuplicates(DropNaIso(projected))
    IN  {WithSurrogateKey(s) : s \in SortValuesIso(Range(deduped))}

----------------------------------------------------------------------------
(* Gold script: fact table *)

FactColumns(d) ==
    LET fact_columns == SelectSeq(d.columns, LAMBDA c : c \notin {"country", "continent"})
        merged       == fact_columns \o <<"country_sk", "country_id">>
        dropped      == SelectSeq(merged, LAMBDA c : c \notin {"iso_code", "country_id"})
    IN  <<"country_sk", "year">>
            \o SelectSeq(dropped, LAMBDA c : c \notin {"country_sk", "year"})

\* the rows one left row becomes in merge(how="left"): one per dimension row
\* whose country_id equals its iso_code, or a single row with a null
\* country_sk when there is none
MergeRow(r, dim) ==
    LET hits == SelectSeq(dim, LAMBDA m : ~IsNull(r.iso_code) /\ m.country_id = r.iso_code)
    IN  IF hits = <<>>
        THEN <<[country_sk |-> Null, year |-> r.year, co2 |-> r.co2]>>
        ELSE [i \in 1..Len(hits) |->
                [country_sk |-> Some(hits[i].country_sk), year |-> r.year, co2 |-> r.co2]]

RECURSIVE MergeLeft(_, _)
MergeLeft(rows, dim) ==
    IF rows = <<>> THEN <<>>
    ELSE MergeRow(Head(rows), dim) \o MergeLeft(Tail(rows), dim)

FactEmissions(d, dim) == [columns |-> FactColumns(d), rows |-> MergeLeft(d.rows, dim)]

----------------------------------------------------------------------------
(* Gold script: global yearly rollup *)

TotalDecimals == 2

AvgDecimals == 4

\* co2 cells count units of 10^-UnitDecimals
UnitDecimals == AvgDecimals

RECURSIVE Pow10(_)
Pow10(k) == IF k = 0 THEN 1 ELSE 10 * Pow10(k - 1)

\* n/d rounded to the nearest integer, ties to the even one (numpy round)
RoundHalfEven(n, d) ==
    LET q == n \div d
        r == n % d
    IN  IF 2 * r < d THEN q
        ELSE IF 2 * r > d THEN q + 1
        ELSE IF q % 2 = 0 THEN q ELSE q + 1

\* Series.round(decimals) of the value n/d units
RoundTo(n, d, decimals) ==
    LET step == Pow10(UnitDecimals - decimals)
    IN  RoundHalfEven(n, d * step) * step

\* groupby(col) keys: the non-null values, ascending
GroupKeys(cells) == SortAsc({c[1] : c \in {x \in cells : ~IsNull(x)}})

RowsOfYear(rows, y) == SelectSeq(rows, LAMBDA r : r.year = Some(y))

Co2Of(rows) == NonNull([i \in 1..Len(rows) |-> rows[i].co2])

NUniqueCounted(rows) == Cardinality({r.country_sk : r \in Range(rows)})

\* nunique(): distinct values, nulls not counted
NUnique(rows) == Cardinality({r.country_sk : r \in Range(rows)} \ {Null})

AggGlobal(fact) ==
    LET years == GroupKeys({r.year : r \in Range(fact.rows)})
    IN  [i \in 1..Len(years) |->
            LET g    == RowsOfYear(fact.rows, years[i])
                vals == Co2Of(g)
            IN  [year          |-> years[i],
                 total_co2     |-> RoundTo(SumSeq(vals), 1, TotalDecimals),
                 avg_co2       |-> IF vals = <<>> THEN Null
                                   ELSE Some(RoundTo(SumSeq(vals), Len(vals), AvgDecimals)),
                 country_count |-> NUnique(g)]]

----------------------------------------------------------------------------
(* Gold script: top emitters per year *)

TOP_N == 10

RECURSIVE Concat(_)
Concat(ss) == IF ss = <<>> THEN <<>> ELSE Head(ss) \o Concat(Tail(ss))

GroupKeysKeepNull(rows, y) ==
    LET sks == {r.country_sk : r \in Range(RowsOfYear(rows, y))}
        nn  == SortAsc({c[1] : c \in sks \ {Null}})
    IN  [i \in 1..Len(nn) |-> Some(nn[i])] \o (IF Null \in sks THEN <<Null>> ELSE <<>>)

\* groupby(["year", "country_sk"]) keys of one year: null country_sk dropped
GroupKeysOfYear(rows, y) ==
    LET nn == SortAsc({c[1] : c \in {r.country_sk : r \in Range(RowsOfYear(rows, y))} \ {Null}})
    IN  [i \in 1..Len(nn) |-> Some(nn[i])]

\* groupby(["year", "country_sk"], as_index=False).agg(total_co2=("co2", "sum"))
CountryYearSums(fact) ==
    LET years == GroupKeys({r.year : r \in Range(fact.rows)})
    IN  Concat([i \in 1..Len(years) |->
            LET keys == GroupKeysOfYear(fact.rows, years[i])
            IN  [j \in 1..Len(keys) |->
                    [year       |-> years[i],
                     country_sk |-> keys[j],
                     total_co2  |-> SumSeq(Co2Of(SelectSeq(RowsOfYear(fact.rows, years[i]),
                                        LAMBDA r : r.country_sk = keys[j])))]]])

RECURSIVE InsertDesc(_, _)
InsertDesc(x, s) ==
    IF s = <<>> THEN <<x>>
    ELSE IF x > Head(s) THEN <<x>> \o s
    ELSE <<Head(s)>> \o InsertDesc(x, Tail(s))

RECURSIVE SortDesc(_)
SortDesc(s) == IF s = <<>> THEN <<>> ELSE InsertDesc(Head(s), SortDesc(Tail(s)))

RECURSIVE MinRanks(_)
MinRanks(sorted) ==
    IF sorted = <<>> THEN <<>>
    ELSE LET n    == Len(sorted)
             init == MinRanks(SubSeq(sorted, 1, n - 1))
         IN  IF n = 1 THEN <<1>>
             ELSE Append(init, IF sorted[n] # sorted[n - 1] THEN n ELSE init[n - 1])

\* rank(method="dense") over values sorted descending: the rank grows by one
\* whenever the value changes
RECURSIVE DenseRanks(_)
DenseRanks(sorted) ==
    IF sorted = <<>> THEN <<>>
    ELSE LET n    == Len(sorted)
             init == DenseRanks(SubSeq(sorted, 1, n - 1))
         IN  IF n = 1 THEN <<1>>
             ELSE Append(init, IF sorted[n] # sorted[n - 1] THEN init[n - 1] + 1
                               ELSE init[n - 1])

\* groupby("year")["total_co2"].rank(method="dense", ascending=False)
WithRank(cye) ==
    [i \in 1..Len(cye) |->
        LET g      == SelectSeq(cye, LAMBDA r : r.year = cye[i].year)
            sorted == SortDesc([j \in 1..Len(g) |-> g[j].total_co2])
            ranks  == DenseRanks(sorted)
            pos    == CHOOSE j \in 1..Len(sorted) : sorted[j] = cye[i].total_co2
        IN  [year |-> cye[i].year, country_sk |-> cye[i].country_sk,
             total_co2 |-> cye[i].total_co2, rank |-> ranks[pos]]]

YearRankLeq(a, b) == a.year < b.year \/ (a.year = b.year /\ a.rank <= b.rank)

RECURSIVE InsertByYearRank(_, _)
InsertByYearRank(x, s) ==
    IF s = <<>> THEN <<x>>
    ELSE IF YearRankLeq(s[Len(s)], x) THEN Append(s, x)
    ELSE Append(InsertByYearRank(x, SubSeq(s, 1, Len(s) - 1)), s[Len(s)])

\* sort_values(["year", "rank"]): stable
RECURSIVE SortByYearRank(_)
SortByYearRank(s) ==
    IF s = <<>> THEN <<>>
    ELSE InsertByYearRank(s[Len(s)], SortByYearRank(SubSeq(s, 1, Len(s) - 1)))

TopEmitters(ranked) == SortByYearRank(SelectSeq(ranked, LAMBDA r : r.rank <= TOP_N))

----------------------------------------------------------------------------
(* Gold script: the run, step by step *)

NoError == [exc |-> "none", msg |-> "", arg |-> {}]

Err(exc, msg, arg) == [exc |-> exc, msg |-> msg, arg |-> arg]

NoTable == [columns |-> <<>>, rows |-> <<>>]

local_dim == "data/gold/dim_country.parquet"

local_fact == "data/gold/fact_emissions.parquet"

local_agg == "data/gold/agg_global_emissions_by_year.parquet"

local_top_emitters == "data/gold/agg_top_emitters_by_year.parquet"

dim_country_blob == "gold:dim_country"

fact_emissions_blob == "gold:fact_emissions"

agg_blob_path == "gold:agg_global_emissions_by_year"

top_emitters_blob_path == "gold:agg_top_emitters_by_year"

\* lines 70-87
BuildDim ==
    /\ pc = "dim"
    /\ \E d \in DimCandidates(df) : dim_country' = d
    /\ pc' = "fact"
    /\ UNCHANGED <<error, df, fact_emissions, agg_global, country_year_emissions,
                   top_emitters, local_files, blobs>>

\* lines 94-120
BuildFact ==
    /\ pc = "fact"
    /\ fact_emissions' = FactEmissions(df, dim_country)
    /\ pc' = "write_gold"
    /\ UNCHANGED <<error, df, dim_country, agg_global, country_year_emissions,
                   top_emitters, local_files, blobs>>

\* lines 125-138
WriteGoldTables ==
    /\ pc = "write_gold"
    /\ local_files' = Put(Put(local_files, local_dim, dim_country), local_fact, fact_emissions)
    /\ blobs' = Put(Put(blobs, dim_country_blob, dim_country),
                    fact_emissions_blob, fact_emissions)
    /\ pc' = "agg"
    /\ UNCHANGED <<error, df, dim_country, fact_emissions, agg_global,
                   country_year_emissions, top_emitters>>

\* lines 147-148
Co2Missing ==
    /\ pc = "agg"
    /\ "co2" \notin Range(fact_emissions.columns)
    /\ error' = Err("ValueError", "Expected 'co2' column not found in fact table", {})
    /\ pc' = "failed"
    /\ UNCHANGED <<df, dim_country, fact_emissions, agg_global, country_year_emissions,
                   top_emitters, local_files, blobs>>

\* lines 147-162
BuildAggGlobal ==
    /\ pc = "agg"
    /\ "co2" \in Range(fact_emissions.columns)
    /\ agg_global' = AggGlobal(fact_emissions)
    /\ pc' = "write_agg"
    /\ UNCHANGED <<error, df, dim_country, fact_emissions, country_year_emissions,
                   top_emitters, local_files, blobs>>

\* lines 167-180
WriteAgg ==
    /\ pc = "write_agg"
    /\ local_files' = Put(local_files, local_agg, agg_global)
    /\ blobs' = Put(blobs, agg_blob_path, agg_global)
    /\ pc' = "top"
    /\ UNCHANGED <<error, df, dim_country, fact_emissions, agg_global,
                   country_year_emissions, top_emitters>>

\* lines 193-209
BuildTopEmitters ==
    /\ pc = "top"
    /\ country_year_emissions' = WithRank(CountryYearSums(fact_emissions))
    /\ top_emitters' = TopEmitters(country_year_emissions')
    /\ pc' = "write_top"
    /\ UNCHANGED <<error, df, dim_country, fact_emissions, agg_global, local_files, blobs>>

\* lines 215-228
WriteTopEmitters ==
    /\ pc = "write_top"
    /\ local_files' = Put(local_files, local_top_emitters, top_emitters)
    /\ blobs' = Put(blobs, top_emitters_blob_path, top_emitters)
    /\ pc' = "done"
    /\ UNCHANGED <<error, df, dim_country, fact_emissions, agg_global,
                   country_year_emissions, top_emitters>>

GoldNext ==
    \/ BuildDim
    \/ BuildFact
    \/ WriteGoldTables
    \/ Co2Missing
    \/ BuildAggGlobal
    \/ WriteAgg
    \/ BuildTopEmitters
    \/ WriteTopEmitters

(* Silver tables the Gold script can read: they passed the quality gate, so   *)
(* they are non-empty, country and year are non-null and co2 is non-negative. *)

MaxRows == 2

\* (iso_code, country) pairs of the input rows: a row without iso code, two
\* spellings of the country of iso code 1, and iso code 2
GoldKeys == {<<Null, Some("A")>>, <<Some(1), Some("A")>>, <<Some(1), Some("B")>>,
             <<Some(2), Some("A")>>}

ContinentValues == {Some("AS"), Some("EU")}

GoldYearValues == {Some(2000), Some(2001)}

GoldCo2Values == {Null, Some(30), Some(75)}

SeqsUpTo(S, n) == UNION {[1..k -> S] : k \in 1..n}

GoldRow(iso, country, continent, year, co2) ==
    [iso_code |-> iso, country |-> country, continent |-> continent,
     year |-> year, co2 |-> co2]

SilverTables ==
    {[columns |-> <<"iso_code", "country", "year", "co2">>, rows |-> rs] :
        rs \in SeqsUpTo({GoldRow(k[1], k[2], Null, y, v) : k \in GoldKeys,
                            y \in GoldYearValues, v \in GoldCo2Values}, MaxRows)}
    \cup
    {[columns |-> <<"iso_code", "country", "year">>, rows |-> rs] :
        rs \in SeqsUpTo({GoldRow(k[1], k[2], Null, y, Null) : k \in GoldKeys,
                            y \in GoldYearValues}, MaxRows)}
    \cup
    {[columns |-> <<"iso_code", "country", "continent", "year">>, rows |-> rs] :
        rs \in SeqsUpTo({GoldRow(k[1], k[2], c, y, Null) : k \in GoldKeys,
                            c \in ContinentValues, y \in GoldYearValues}, MaxRows)}

NothingBuilt ==
    /\ error = NoError
    /\ dim_country = <<>>
    /\ fact_emissions = NoTable
    /\ agg_global = <<>>
    /\ country_year_emissions = <<>>
    /\ top_emitters = <<>>
    /\ local_files = NoFile
    /\ blobs = NoFile

GoldInit ==
    /\ df \in SilverTables
    /\ pc = "dim"
    /\ NothingBuilt

SpecGold == GoldInit /\ [][GoldNext]_vars

----------------------------------------------------------------------------
(* Silver script: column-name normalization.  A column name of the raw     *)
(* file is a sequence of characters.                                       *)

Whitespace == {" ", "\t"}

Uppers == <<"A", "B", "C", "D", "E", "F", "G", "H", "I", "J", "K", "L", "M",
            "N", "O", "P", "Q", "R", "S", "T", "U", "V", "W", "X", "Y", "Z">>

Lowers == <<"a", "b", "c", "d", "e", "f", "g", "h", "i", "j", "k", "l", "m",
            "n", "o", "p", "q", "r", "s", "t", "u", "v", "w", "x", "y", "z">>

RECURSIVE LStrip(_)
LStrip(s) == IF s # <<>> /\ Head(s) \in Whitespace THEN LStrip(Tail(s)) ELSE s

RECURSIVE RStrip(_)
RStrip(s) ==
    IF s # <<>> /\ s[Len(s)] \in Whitespace THEN RStrip(SubSeq(s, 1, Len(s) - 1)) ELSE s

\* str.strip()
Strip(s) == RStrip(LStrip(s))

\* str.lower()
Lower(s) ==
    [i \in 1..Len(s) |->
        IF \E k \in 1..Len(Uppers) : Uppers[k] = s[i]
        THEN Lowers[CHOOSE k \in 1..Len(Uppers) : Uppers[k] = s[i]]
        ELSE s[i]]

ReplaceSwapped(s, old, new) == [i \in 1..Len(s) |-> IF s[i] = new THEN old ELSE s[i]]

\* str.replace(old, new) for one-character old and new
Replace(s, old, new) == [i \in 1..Len(s) |-> IF s[i] = old THEN new ELSE s[i]]

NormalizeName(s) == Replace(Lower(Strip(s)), " ", "_")

NormalizeColumns(columns) == [i \in 1..Len(columns) |-> NormalizeName(columns[i])]

COUNTRY == <<"c", "o", "u", "n", "t", "r", "y">>

YEAR == <<"y", "e", "a", "r">>

CO2 == <<"c", "o", "2">>

----------------------------------------------------------------------------
(* Silver script: cells, coercion, row filter.  A row is the sequence of   *)
(* its cells, aligned with df.columns.                                     *)

\* a year cell holding text that is not a number: the one cell of length 2
NotANumber == <<0, 0>>

HasColumn(d, name) == name \in Range(d.columns)

ColumnIndex(d, name) == CHOOSE i \in 1..Len(d.columns) : d.columns[i] = name

Cell(d, r, name) == r[ColumnIndex(d, name)]

Column(d, name) == [i \in 1..Len(d.rows) |-> Cell(d, d.rows[i], name)]

\* pd.to_numeric(errors="coerce").astype("Int64") of one cell
ToNumericCoerce(c) == IF Len(c) = 1 THEN c ELSE Null

CoerceYear(d) ==
    [columns |-> d.columns,
     rows |-> [i \in 1..Len(d.rows) |->
                [j \in 1..Len(d.columns) |->
                    IF j = ColumnIndex(d, YEAR) THEN ToNumericCoerce(d.rows[i][j])
                    ELSE d.rows[i][j]]]]

\* df.dropna(subset=["country", "year"])
DropNa(d) ==
    [columns |-> d.columns,
     rows |-> SelectSeq(d.rows, LAMBDA r : ~IsNull(Cell(d, r, COUNTRY))
                                            /\ ~IsNull(Cell(d, r, YEAR)))]

----------------------------------------------------------------------------
(* Silver script: run_data_quality_checks *)

MinYear == 1750

\* datetime.now().year
current_year == 2026

\* DataFrame.empty: an axis of length 0
Empty(d) == Len(d.rows) = 0 \/ Len(d.columns) = 0

AnyNull(cells) == \E i \in 1..Len(cells) : IsNull(cells[i])

InvalidYearsOffByOne(d) ==
    SelectSeq(d.rows, LAMBDA r : Cell(d, r, YEAR)[1] < MinYear
                                    \/ Cell(d, r, YEAR)[1] > current_year + 1)

\* df[(df["year"] < 1750) | (df["year"] > current_year)]
InvalidYears(d) ==
    SelectSeq(d.rows, LAMBDA r : Cell(d, r, YEAR)[1] < MinYear
                                    \/ Cell(d, r, YEAR)[1] > current_year)

\* df[df["co2"] < 0]: a comparison with NaN is False
NegativeCo2(d) ==
    SelectSeq(d.rows, LAMBDA r : ~IsNull(Cell(d, r, CO2)) /\ Cell(d, r, CO2)[1] < 0)

\* check D
CheckYears(d) ==
    IF InvalidYears(d) # <<>>
    THEN Err("ValueError", "Invalid years detected outside range", {})
    ELSE NoError

CheckCo2Skipped(d) == NoError

\* check E
CheckCo2(d) ==
    IF HasColumn(d, CO2) /\ NegativeCo2(d) # <<>>
    THEN Err("ValueError", "Negative CO2 values detected", {})
    ELSE NoError

\* the exception the gate raises on d, or NoError when it returns
RunDataQualityChecks(d) ==
    IF Empty(d)
    THEN Err("ValueError", "Data quality check failed: DataFrame is empty", {})
    ELSE IF {COUNTRY, YEAR} \ Range(d.columns) # {}
    THEN Err("ValueError", "Missing required columns", {COUNTRY, YEAR} \ Range(d.columns))
    ELSE IF AnyNull(Column(d, COUNTRY))
    THEN Err("ValueError", "Null values found in 'country' column", {})
    ELSE IF AnyNull(Column(d, YEAR))
    THEN Err("ValueError", "Null values found in 'year' column", {})
    ELSE IF CheckYears(d) # NoError THEN CheckYears(d)
    ELSE CheckCo2(d)

----------------------------------------------------------------------------
(* Silver script: the run, step by step *)

local_silver == "data/silver/owid-co2-data.parquet"

silver_blob_path == "silver:owid-co2-data.parquet"

SilverUnchanged == UNCHANGED <<dim_country, fact_emissions, agg_global,
                               country_year_emissions, top_emitters>>

\* lines 93-98
NormalizeHeader ==
    /\ pc = "normalize"
    /\ df' = [columns |-> NormalizeColumns(df.columns), rows |-> df.rows]
    /\ pc' = "coerce"
    /\ UNCHANGED <<error, local_files, blobs>>
    /\ SilverUnchanged

\* line 100, df["year"] of a table without that column
CoerceKeyError ==
    /\ pc = "coerce"
    /\ ~HasColumn(df, YEAR)
    /\ error' = Err("KeyError", "year", {YEAR})
    /\ pc' = "failed"
    /\ UNCHANGED <<df, local_files, blobs>>
    /\ SilverUnchanged

\* line 100
CoerceYearColumn ==
    /\ pc = "coerce"
    /\ HasColumn(df, YEAR)
    /\ df' = CoerceYear(df)
    /\ pc' = "dropna"
    /\ UNCHANGED <<error, local_files, blobs>>
    /\ SilverUnchanged

\* line 102, dropna(subset=...) of a table without the column
DropNaKeyError ==
    /\ pc = "dropna"
    /\ ~HasColumn(df, COUNTRY)
    /\ error' = Err("KeyError", "country", {COUNTRY})
    /\ pc' = "failed"
    /\ UNCHANGED <<df, local_files, blobs>>
    /\ SilverUnchanged

\* line 102
DropNaRows ==
    /\ pc = "dropna"
    /\ HasColumn(df, COUNTRY)
    /\ df' = DropNa(df)
    /\ pc' = "gate"
    /\ UNCHANGED <<error, local_files, blobs>>
    /\ SilverUnchanged

\* line 175, the gate raises
GateRaises ==
    /\ pc = "gate"
    /\ RunDataQualityChecks(df) # NoError
    /\ error' = RunDataQualityChecks(df)
    /\ pc' = "failed"
    /\ UNCHANGED <<df, local_files, blobs>>
    /\ SilverUnchanged

\* line 175, the gate returns
GatePasses ==
    /\ pc = "gate"
    /\ RunDataQualityChecks(df) = NoError
    /\ pc' = "write"
    /\ UNCHANGED <<error, df, local_files, blobs>>
    /\ SilverUnchanged

\* line 181
WriteSilverParquet ==
    /\ pc = "write"
    /\ local_files' = Put(local_files, local_silver, df)
    /\ pc' = "upload"
    /\ UNCHANGED <<error, df, blobs>>
    /\ SilverUnchanged

\* lines 185-191
UploadSilver ==
    /\ pc = "upload"
    /\ blobs' = Put(blobs, silver_blob_path, local_files[local_silver])
    /\ pc' = "done"
    /\ UNCHANGED <<error, df, local_files>>
    /\ SilverUnchanged

SilverNext ==
    \/ NormalizeHeader
    \/ CoerceKeyError
    \/ CoerceYearColumn
    \/ DropNaKeyError
    \/ DropNaRows
    \/ GateRaises
    \/ GatePasses
    \/ WriteSilverParquet
    \/ UploadSilver

(* Raw files the Silver script can read *)

MaxRawRows == 2

RawHeaders ==
    { <<COUNTRY, YEAR, CO2>>,
      << <<" ", "C", "o", "u", "n", "t", "r", "y">>, <<"Y", "E", "A", "R", " ">>,
         <<"C", "O", "2">> >>,
      <<COUNTRY, CO2>>,
      <<YEAR, CO2>>,
      <<COUNTRY, YEAR>> }

RawCountryCells == {Null, Some("A")}

YearCells == {Null, Some(MinYear - 1), Some(MinYear), Some(current_year),
              Some(current_year + 1)}

RawYearCells == YearCells \cup {NotANumber}

RawCo2Cells == {Null, Some(0 - 1), Some(1)}

\* the cells a column can hold, by the column's normalized name
CellsOf(name, years) ==
    IF NormalizeName(name) = COUNTRY THEN RawCountryCells
    ELSE IF NormalizeName(name) = YEAR THEN years
    ELSE RawCo2Cells

RECURSIVE RowsOver(_, _)
RowsOver(header, years) ==
    IF header = <<>> THEN {<<>>}
    ELSE {<<c>> \o rest : c \in CellsOf(Head(header), years),
                          rest \in RowsOver(Tail(header), years)}

TablesOver(h, years, n) ==
    {[columns |-> h, rows |-> rs] : rs \in UNION {[1..k -> RowsOver(h, years)] : k \in 0..n}}

SilverInit ==
    /\ \E h \in RawHeaders : df \in TablesOver(h, RawYearCells, MaxRawRows)
    /\ pc = "normalize"
    /\ NothingBuilt

SpecSilver == SilverInit /\ [][SilverNext]_vars

----------------------------------------------------------------------------
(* run_data_quality_checks called on an arbitrary typed table *)

GateHeaders ==
    { <<COUNTRY, YEAR, CO2>>, <<COUNTRY, YEAR>>, <<YEAR, CO2>>, <<COUNTRY, CO2>>, <<>> }

CallGateRaises ==
    /\ pc = "call_gate"
    /\ RunDataQualityChecks(df) # NoError
    /\ error' = RunDataQualityChecks(df)
    /\ pc' = "gate_raised"
    /\ UNCHANGED <<df, local_files, blobs>>
    /\ SilverUnchanged

CallGateReturns ==
    /\ pc = "call_gate"
    /\ RunDataQualityChecks(df) = NoError
    /\ pc' = "gate_returned"
    /\ UNCHANGED <<error, df, local_files, blobs>>
    /\ SilverUnchanged

GateNext == CallGateRaises \/ CallGateReturns

GateInit ==
    /\ \E h \in GateHeaders : df \in TablesOver(h, YearCells, MaxRawRows)
    /\ pc = "call_gate"
    /\ NothingBuilt

----------------------------------------------------------------------------
(* Column-name normalization on arbitrary headers *)

MaxLen == 3

NameChars == {"A", " ", "\t", "_"}

Names == UNION {[1..k -> NameChars] : k \in 0..MaxLen}

HeaderLists == UNION {[1..k -> Names] : k \in 1..2}

NormInit ==
    /\ df \in {[columns |-> h, rows |-> <<>>] : h \in HeaderLists}
    /\ pc = "normalize"
    /\ NothingBuilt

SpecNorm == NormInit /\ [][NormalizeHeader]_vars

----------------------------------------------------------------------------
(* Gold script on wide tables: one row per country in year 2000, the co2   *)
(* levels rising (or falling) with the iso code at the codes in steps; a   *)
(* second row for iso code 1, a row without iso code, and two rows in 2001 *)

WideCountries == 12

WideLevel(i, steps, falling) ==
    LET up == Cardinality({j \in steps : j <= i})
    IN  IF falling THEN WideCountries - up ELSE up

WideRows(steps, falling, co2s) ==
    [i \in 1..WideCountries |->
        GoldRow(Some(i), Some("A"), Null, Some(2000),
                IF co2s THEN Some(75 * WideLevel(i, steps, falling)) ELSE Null)]
    \o << GoldRow(Some(1), Some("A"), Null, Some(2000), IF co2s THEN Some(30) ELSE Null),
          GoldRow(Null, Some("A"), Null, Some(2000), IF co2s THEN Some(75) ELSE Null),
          GoldRow(Some(1), Some("A"), Null, Some(2001), IF co2s THEN Some(30) ELSE Null),
          GoldRow(Some(2), Some("A"), Null, Some(2001),
                  IF co2s THEN (IF falling THEN Some(30) ELSE Some(75)) ELSE Null) >>

\* few distinct levels, or few ties
WideSteps ==
    {st \in SUBSET (2..WideCountries) :
        Cardinality(st) <= 2 \/ Cardinality(st) >= WideCountries - 3}

WideTables ==
    {[columns |-> <<"iso_code", "country", "year", "co2">>, rows |-> WideRows(st, f, TRUE)] :
        st \in WideSteps, f \in BOOLEAN}
    \cup
    {[columns |-> <<"iso_code", "country", "year">>, rows |-> WideRows({}, FALSE, FALSE)]}

GoldWideInit ==
    /\ df \in WideTables
    /\ pc = "dim"
    /\ NothingBuilt

SpecGoldWide == GoldWideInit /\ [][GoldNext]_vars

\* the Silver script, and the quality gate called on its own
QualityInit == SilverInit \/ GateInit

QualityNext == SilverNext \/ GateNext

SpecQuality == QualityInit /\ [][QualityNext]_vars

----------------------------------------------------------------------------
(* Properties *)

RECURSIVE SumAt(_, _)
\* the sum of f[i] over the indices i in I
SumAt(f, I) ==
    IF I = {} THEN 0
    ELSE LET i == CHOOSE x \in I : TRUE IN f[i] + SumAt(f, I \ {i})

Abs(x) == IF x < 0 THEN 0 - x ELSE x

\* value (in units) is n/d rounded to `decimals` decimals, ties to even
IsRounded(value, n, d, decimals) ==
    LET step == Pow10(UnitDecimals - decimals)
    IN  /\ value % step = 0
        /\ 2 * Abs(value * d - n) <= d * step
        /\ 2 * Abs(value * d - n) = d * step => (value \div step) % 2 = 0

DimBuilt == pc \in {"fact", "write_gold", "agg", "write_agg", "top", "write_top",
                    "done", "failed"}

FactBuilt == DimBuilt /\ pc # "fact"

AggBuilt == pc \in {"write_agg", "top", "write_top", "done"}

TopBuilt == pc \in {"write_top", "done"}

NaturalKeys == {r.iso_code : r \in Range(df.rows)} \ {Null}

\* C1: once the dimension table is built, its country_sk values are exactly
\* 1..K for K the number of distinct non-null iso codes of the Silver table,
\* assigned in ascending natural-key order, one dimension row per natural key.
C1_DenseSurrogateKeys ==
    DimBuilt =>
        /\ Len(dim_country) = Cardinality(NaturalKeys)
        /\ \A i \in 1..Len(dim_country) : dim_country[i].country_sk = i
        /\ \A i, j \in 1..Len(dim_country) :
              i < j => dim_country[i].country_id[1] < dim_country[j].country_id[1]
        /\ {m.country_id : m \in Range(dim_country)} = NaturalKeys

\* C2: once the fact table is built, it has exactly as many rows as the
\* Silver table, and a Silver row whose natural key is null is kept with a
\* null country_sk.
C2_FactRowCount ==
    FactBuilt =>
        /\ Len(fact_emissions.rows) = Len(df.rows)
        /\ \A i \in 1..Len(df.rows) :
              IsNull(df.rows[i].iso_code) => IsNull(fact_emissions.rows[i].country_sk)

\* C4: when the Gold run has aborted because co2 is missing from the fact
\* table, no Gold blob has been uploaded.
C4_NoWriteBeforeAbort ==
    (pc = "failed" /\ error.msg = "Expected 'co2' column not found in fact table")
        => DOMAIN blobs = {}

SilverWritten == local_silver \in DOMAIN local_files \/ silver_blob_path \in DOMAIN blobs

\* the conditions the gate is to reject, stated on a table that has both
\* key columns
GateViolation(d) ==
    \/ Len(d.rows) = 0
    \/ \E i \in 1..Len(d.rows) :
          LET country == d.rows[i][ColumnIndex(d, COUNTRY)]
              year    == d.rows[i][ColumnIndex(d, YEAR)]
          IN  \/ country = Null
              \/ year = Null
              \/ year[1] < MinYear
              \/ year[1] > current_year
              \/ /\ CO2 \in Range(d.columns)
                 /\ d.rows[i][ColumnIndex(d, CO2)] # Null
                 /\ d.rows[i][ColumnIndex(d, CO2)][1] < 0

\* C3: in the Bronze-to-Silver run a Silver artifact (the local Parquet file
\* or the Silver blob) exists only after the gate has returned without error,
\* on a table that is non-empty, has no null key, no year out of range and no
\* negative co2; a run that ended with an error has written nothing.
C3_NoPartialPromotion ==
    /\ SilverWritten =>
          /\ pc \in {"upload", "done"}
          /\ error = NoError
          /\ {COUNTRY, YEAR} \subseteq Range(df.columns)
          /\ ~GateViolation(df)
    /\ error # NoError => ~SilverWritten
    /\ silver_blob_path \in DOMAIN blobs => local_silver \in DOMAIN local_files

C3_Witness ==
    /\ pc = "failed"
    /\ error.msg = "Negative CO2 values detected"
    /\ ~SilverWritten

\* C5: a table on which the gate returns is non-empty, has the columns
\* country and year, no null country or year, every year in
\* [1750, current year] and no negative co2; every Silver table written
\* to the local file or the blob is such a table.
C5_GatePostcondition ==
    /\ pc \in {"gate_returned", "write", "upload", "done"} =>
          /\ {COUNTRY, YEAR} \subseteq Range(df.columns)
          /\ ~GateViolation(df)
    /\ \A n \in DOMAIN local_files :
          /\ {COUNTRY, YEAR} \subseteq Range(local_files[n].columns)
          /\ ~GateViolation(local_files[n])
    /\ \A n \in DOMAIN blobs :
          /\ {COUNTRY, YEAR} \subseteq Range(blobs[n].columns)
          /\ ~GateViolation(blobs[n])

C5_Witness ==
    /\ pc = "gate_returned"
    /\ CO2 \in Range(df.columns)
    /\ \E i \in 1..Len(df.rows) :
          /\ Cell(df, df.rows[i], YEAR) = Some(current_year)
          /\ Cell(df, df.rows[i], CO2) = Null
    /\ \E i \in 1..Len(df.rows) : Cell(df, df.rows[i], YEAR) = Some(MinYear)

\* C8: a Bronze-to-Silver run on a table that lacks country or year ends
\* with the gate's 'Missing required columns' error naming the missing
\* columns, and writes nothing to Silver.
C8_MissingColumnsError ==
    (pc = "failed" /\ {COUNTRY, YEAR} \ Range(df.columns) # {}) =>
        /\ error.exc = "ValueError"
        /\ error.msg = "Missing required columns"
        /\ error.arg = {COUNTRY, YEAR} \ Range(df.columns)
        /\ ~SilverWritten

\* C9: the normalized column names are a fixed point of the normalization:
\* normalizing them again yields the same names.
C9_NormalizeIdempotent ==
    pc = "coerce" => NormalizeColumns(df.columns) = df.columns

C9_Witness ==
    /\ pc = "coerce"
    /\ df.columns[1] = <<"a", "_", "a">>
    /\ Len(df.columns) = 2
    /\ df.columns[2] = <<"_", "\t", "a">>

FactYears == {r.year[1] : r \in {q \in Range(fact_emissions.rows) : q.year # Null}}

\* indices of the fact rows of year y
FactRowsIn(y) == {i \in 1..Len(fact_emissions.rows) : fact_emissions.rows[i].year = Some(y)}

\* the fact table's co2 column with a null read as 0
Co2OrZero ==
    [i \in 1..Len(fact_emissions.rows) |->
        IF fact_emissions.rows[i].co2 = Null THEN 0 ELSE fact_emissions.rows[i].co2[1]]

WithCo2(I) == {i \in I : fact_emissions.rows[i].co2 # Null}

KeysIn(y) == {fact_emissions.rows[i].country_sk : i \in FactRowsIn(y)} \ {Null}

OneRowPerYear ==
    /\ {a.year : a \in Range(agg_global)} = FactYears
    /\ Len(agg_global) = Cardinality(FactYears)

\* C7 as stated: one rollup row per fact year, total_co2 the sum and avg_co2
\* the arithmetic mean of the year's co2 values, country_count the number of
\* distinct non-null country_sk of the year.
C7_ExactSumAndMean ==
    AggBuilt =>
        /\ OneRowPerYear
        /\ \A k \in 1..Len(agg_global) :
              LET a == agg_global[k]
                  I == FactRowsIn(a.year)
              IN  /\ a.total_co2 = SumAt(Co2OrZero, I)
                  /\ WithCo2(I) # {} =>
                        /\ a.avg_co2 # Null
                        /\ a.avg_co2[1] * Cardinality(WithCo2(I)) = SumAt(Co2OrZero, I)
                  /\ a.country_count = Cardinality(KeysIn(a.year))

\* C7 amended: one rollup row per fact year; total_co2 is the sum of the
\* year's non-null co2 values rounded to 2 decimals, avg_co2 their mean
\* rounded to 4 decimals (null when the year has no co2 value), and
\* country_count the number of distinct non-null country_sk of the year.
C7_RoundedSumAndMean ==
    AggBuilt =>
        /\ OneRowPerYear
        /\ \A k \in 1..Len(agg_global) :
              LET a == agg_global[k]
                  I == FactRowsIn(a.year)
              IN  /\ IsRounded(a.total_co2, SumAt(Co2OrZero, I), 1, TotalDecimals)
                  /\ IF WithCo2(I) = {} THEN a.avg_co2 = Null
                     ELSE /\ a.avg_co2 # Null
                          /\ IsRounded(a.avg_co2[1], SumAt(Co2OrZero, I),
                                       Cardinality(WithCo2(I)), AvgDecimals)
                  /\ a.country_count = Cardinality(KeysIn(a.year))

C7_Witness ==
    /\ pc = "done"
    /\ \E k \in 1..Len(agg_global) :
          LET a == agg_global[k]
              I == FactRowsIn(a.year)
          IN  /\ a.total_co2 # SumAt(Co2OrZero, I)
              /\ a.country_count = 1
              /\ \E i \in I : fact_emissions.rows[i].country_sk = Null
              /\ a.avg_co2 # Null
              /\ a.avg_co2[1] * Cardinality(WithCo2(I)) # SumAt(Co2OrZero, I)

\* the distinct sums of year y that are larger than v
LargerSums(y, v) ==
    {q.total_co2 : q \in {x \in Range(country_year_emissions) : x.year = y /\ x.total_co2 > v}}

\* C6: per year, each (year, country_sk) group of the fact table has one row
\* whose total is the group's summed co2 and whose rank is its dense rank in
\* descending order (1 + the number of distinct larger sums of the year);
\* top_emitters holds exactly the rows of rank <= 10, sorted by (year, rank).
C6_DenseRankTopN ==
    TopBuilt =>
        /\ \A y \in FactYears : \A sk \in KeysIn(y) :
              \E k \in 1..Len(country_year_emissions) :
                  /\ country_year_emissions[k].year = y
                  /\ country_year_emissions[k].country_sk = sk
                  /\ country_year_emissions[k].total_co2 =
                        SumAt(Co2OrZero, {i \in FactRowsIn(y) :
                                            fact_emissions.rows[i].country_sk = sk})
        /\ Len(country_year_emissions) =
              SumAt([y \in FactYears |-> Cardinality(KeysIn(y))], FactYears)
        /\ \A k \in 1..Len(country_year_emissions) :
              LET r == country_year_emissions[k]
              IN  r.rank = 1 + Cardinality(LargerSums(r.year, r.total_co2))
        /\ Range(top_emitters) = {r \in Range(country_year_emissions) : r.rank <= TOP_N}
        /\ Len(top_emitters) = Cardinality(Range(top_emitters))
        /\ \A i, j \in 1..Len(top_emitters) :
              i < j => \/ top_emitters[i].year < top_emitters[j].year
                       \/ /\ top_emitters[i].year = top_emitters[j].year
                          /\ top_emitters[i].rank <= top_emitters[j].rank

C6_Witness ==
    /\ pc = "done"
    /\ \E r \in Range(country_year_emissions) : r.rank = TOP_N + 1
    /\ \E i, j \in 1..Len(top_emitters) :
          /\ i # j
          /\ top_emitters[i].year = top_emitters[j].year
          /\ top_emitters[i].rank = top_emitters[j].rank
          /\ top_emitters[i].rank > 1
    /\ \E r \in Range(top_emitters) : r.rank = TOP_N
    /\ Cardinality({r.year : r \in Range(top_emitters)}) = 2

\* C10: fact rows with a null country_sk count in the rollup but not in the
\* ranking: per year the rollup's total_co2 and avg_co2 are the rounded sum
\* and mean of the per-country sums of country_year_emissions together with
\* the co2 of the null-key rows, while every country_sk of
\* country_year_emissions and top_emitters is non-null and a key of the
\* dimension table.
C10_NullKeyRows ==
    TopBuilt =>
        /\ \A k \in 1..Len(agg_global) :
              LET a      == agg_global[k]
                  groups == {i \in 1..Len(country_year_emissions) :
                                country_year_emissions[i].year = a.year}
                  nulls  == {i \in FactRowsIn(a.year) :
                                fact_emissions.rows[i].country_sk = Null}
                  sum    == SumAt([i \in groups |-> country_year_emissions[i].total_co2], groups)
                                + SumAt(Co2OrZero, nulls)
              IN  /\ IsRounded(a.total_co2, sum, 1, TotalDecimals)
                  /\ a.avg_co2 # Null =>
                        IsRounded(a.avg_co2[1], sum,
                                  Cardinality(WithCo2(FactRowsIn(a.year))), AvgDecimals)
        /\ \A r \in Range(country_year_emissions) \cup Range(top_emitters) :
              /\ r.country_sk # Null
              /\ \E m \in Range(dim_country) : Some(m.country_sk) = r.country_sk

C10_Witness ==
    /\ pc = "done"
    /\ top_emitters # <<>>
    /\ \E i \in 1..Len(fact_emissions.rows) :
          /\ fact_emissions.rows[i].country_sk = Null
          /\ fact_emissions.rows[i].co2 = Some(75)
          /\ \E k \in 1..Len(agg_global) :
                /\ agg_global[k].year = fact_emissions.rows[i].year[1]
                /\ agg_global[k].total_co2 = 100
          /\ \E r \in Range(top_emitters) : r.year = fact_emissions.rows[i].year[1]

====
